---- MODULE Spec2Model ----
(***************************************************************************)
(* Smart Inventory: equipment rows, their audit history and the admin     *)
(* gate, as implemented by app/crud.py, app/main.py, app/models.py and     *)
(* app/schemas.py.  Every request runs in its own SQLAlchemy session; one  *)
(* step of a request is one statement (or one flush+commit) against the    *)
(* shared store, and requests of different workers interleave between      *)
(* steps.                                                                  *)
(***************************************************************************)
EXTENDS Integers, Sequences, FiniteSets, TLC

VARIABLES
    equipment,        \* table "equipment": the committed rows
    history,          \* table "history": the committed rows, in insertion order
    nextEquipmentId,  \* next primary key of table "equipment"
    nextHistoryId,    \* next primary key of table "history"
    fkEnforced,       \* whether the engine enforces ForeignKey("equipment.id")
    pc,               \* per worker: position inside the handler it runs
    req,              \* per worker: the request it serves (or served last)
    loc,              \* per worker: the session's loaded objects
    result,           \* per worker: outcome of the request served last
    pre,              \* the committed store when the latest request entered
    failures          \* number of statements that failed for outside reasons

vars == <<equipment, history, nextEquipmentId, nextHistoryId, fkEnforced,
          pc, req, loc, result, pre, failures>>

store == <<equipment, history>>

\* ------------------------------------------------------------------ bounds

MaxEquipment == 2
MaxHistory == 3
MaxFailures == 1

Procs == {"w1", "w2"}

\* ------------------------------------------------------------ value domains

\* Python's None, for an optional string; and for an optional row (a query
\* that found nothing).
None == "None"

NoRow == [id |-> 0]

Uuids == {"u1", "u2"}

available == "available"
issued == "issued"
lost == "lost"

EquipmentStatus == {available, issued, lost}

\* Table "users": the default admin and one ordinary user.
Users == {[id |-> 1, role |-> "admin"], [id |-> 2, role |-> "user"]}

\* Values of request.session.get("user_id"): 0 is an absent key, 3 is the id
\* of a user row that no longer exists.
SessionIds == {0, 1, 2, 3}

\* ------------------------------------------------------ history action text

CreatedAction == <<"created">>

StatusAction(v) == <<"status changed to", v>>

DetailsAction == <<"details updated">>

\* Free-form texts a caller may post (HistoryBase: action, and an optional
\* user).
Notes == {<< <<"checked">>, "bob" >>, << <<"returned">>, None >>}

\* ------------------------------------------------------------ store queries

\* _save_qrcode: the path of the image written for an identifier.
SaveQrcode(u) == <<"qrcodes", u, "png">>

\* get_equipment_by_uuid: the first row with this uuid, or None.
GetEquipmentByUuid(u) ==
    IF \E e \in equipment : e.uuid = u
    THEN CHOOSE e \in equipment : e.uuid = u
    ELSE NoRow

\* SELECT ... WHERE equipment.id = i (db.refresh of an Equipment).
EquipmentById(i) ==
    IF \E e \in equipment : e.id = i
    THEN CHOOSE e \in equipment : e.id = i
    ELSE NoRow

\* Equipment.histories: the history rows of one equipment, in table order.
Histories(i) == SelectSeq(history, LAMBDA h : h.equipment_id = i)

HistoryIds(s) == {s[k].id : k \in 1..Len(s)}

LiveIds == {e.id : e \in equipment}

\* ------------------------------------------------------------------- gate

\* get_current_user: the user row the session's user_id names, or None.
GetCurrentUser(sid) ==
    IF sid = 0 THEN NoRow
    ELSE IF \E u \in Users : u.id = sid
         THEN CHOOSE u \in Users : u.id = sid
         ELSE NoRow

\* The principal class of a resolved user (spec 4.4).
Principal(sid) ==
    IF GetCurrentUser(sid) = NoRow THEN "anonymous"
    ELSE IF GetCurrentUser(sid).role = "admin" THEN "admin" ELSE "user"

\* require_admin without its role check.
RequireAdminNoRole(user) ==
    IF user = NoRow THEN "unauthorized" ELSE "allow"

\* require_admin: the dependency of the JSON endpoints.
RequireAdmin(user) ==
    IF user = NoRow THEN "unauthorized"
    ELSE IF user.role # "admin" THEN "forbidden"
    ELSE "allow"

\* The inline check of add_equipment: a browser form is sent to the login page.
AddEquipmentGate(user, expects_html) ==
    IF user = NoRow
    THEN IF expects_html THEN "login_redirect" ELSE "unauthorized"
    ELSE IF user.role # "admin" THEN "forbidden"
    ELSE "allow"

\* The form check sending every principal but the admin to the login page.
FormGateLoginForAll(user) ==
    IF user = NoRow \/ user.role # "admin" THEN "login_redirect" ELSE "allow"

\* The inline check of edit_equipment_form and delete_equipment_form.
FormGate(user) ==
    IF user = NoRow THEN "login_redirect"
    ELSE IF user.role # "admin" THEN "forbidden"
    ELSE "allow"

\* --------------------------------------------------------------- requests

Ops == {"create", "set_status", "update_fields", "append_note", "delete", "detail"}

MutatingOps == Ops \ {"detail"}

BlankRequest ==
    [op |-> "detail", via |-> "json", session |-> 0, uuid |-> "u1",
     status |-> None, name |-> None, location |-> None, notes |-> None,
     action |-> None, user |-> None]

Request(op, via, sid, u) ==
    [BlankRequest EXCEPT !.op = op, !.via = via, !.session = sid, !.uuid = u]

\* Bodies of POST /equipment/add.  A form may leave the name empty.
CreateInputs(via) ==
    {[name |-> "n1", location |-> "l1", notes |-> None]}
    \cup (IF via = "form"
          THEN {[name |-> "", location |-> "l1", notes |-> None]}
          ELSE {})

\* Bodies of PATCH /equipment/{uuid} (EquipmentUpdate: every field optional)
\* and of the edit form, where a field left empty arrives as "".
UpdateInputs(via) ==
    IF via = "json"
    THEN {[name |-> None, location |-> None, notes |-> None],
          [name |-> "n1", location |-> None, notes |-> None],
          [name |-> "n2", location |-> None, notes |-> None],
          [name |-> None, location |-> "l2", notes |-> "t1"],
          [name |-> "n2", location |-> "l2", notes |-> "t1"]}
    ELSE {[name |-> "", location |-> "", notes |-> ""],
          [name |-> "n2", location |-> "", notes |-> ""]}

\* form.get(key) or None: an empty form field counts as not supplied.
FormValue(v) == IF v = "" THEN None ELSE v

\* The EquipmentUpdate the endpoint hands to crud.update_equipment_details.
UpdateIn(r) ==
    IF r.via = "form"
    THEN [name |-> FormValue(r.name), location |-> FormValue(r.location),
          notes |-> FormValue(r.notes)]
    ELSE [name |-> r.name, location |-> r.location, notes |-> r.notes]

\* Bodies of PATCH /equipment/{uuid}/status: the three values of the enum and
\* a string that is none of them.
StatusInputs == EquipmentStatus \cup {"broken"}

\* StatusUpdate with no check of the value against the enum.
StatusUpdateAny(v) == TRUE

\* StatusUpdate: the body is accepted when its status is a value of
\* EquipmentStatus.
StatusUpdate(v) == v \in EquipmentStatus

\* Every payload of one endpoint, sent with session id sid for identifier u.
Payloads(op, via, sid, u) ==
    CASE op = "create" ->
           {[Request(op, via, sid, u) EXCEPT !.name = i.name,
                !.location = i.location, !.notes = i.notes] : i \in CreateInputs(via)}
      [] op = "set_status" ->
           {[Request(op, via, sid, u) EXCEPT !.status = v] : v \in StatusInputs}
      [] op = "update_fields" ->
           {[Request(op, via, sid, u) EXCEPT !.name = i.name,
                !.location = i.location, !.notes = i.notes] : i \in UpdateInputs(via)}
      [] op = "append_note" ->
           {[Request(op, via, sid, u) EXCEPT !.action = n[1], !.user = n[2]] :
                n \in Notes}
      [] OTHER -> {Request(op, via, sid, u)}

\* The endpoints of main.py: which operation is served over which body type.
Endpoints ==
    {<<"create", "json">>, <<"create", "form">>, <<"set_status", "json">>,
     <<"update_fields", "json">>, <<"update_fields", "form">>,
     <<"append_note", "json">>, <<"delete", "json">>, <<"delete", "form">>,
     <<"detail", "json">>}

\* One payload of each endpoint.
Representative(op, via, sid, u) ==
    CASE op = "create" ->
           [Request(op, via, sid, u) EXCEPT !.name = "n1", !.location = "l1"]
      [] op = "set_status" -> [Request(op, via, sid, u) EXCEPT !.status = issued]
      [] op = "update_fields" /\ via = "json" ->
           [Request(op, via, sid, u) EXCEPT !.name = "n2"]
      [] op = "update_fields" /\ via = "form" ->
           [Request(op, via, sid, u) EXCEPT !.name = "n2", !.location = "", !.notes = ""]
      [] op = "append_note" ->
           [Request(op, via, sid, u) EXCEPT !.action = <<"checked">>, !.user = "bob"]
      [] OTHER -> Request(op, via, sid, u)

\* The admin's requests for u1 carry every payload; the admin's requests for
\* u2, and the requests of the other principals, whose payload is never
\* read, carry one payload each.
Requests ==
    UNION {Payloads(ep[1], ep[2], 1, "u1") : ep \in Endpoints}
    \cup {Representative(ep[1], ep[2], 1, "u2") : ep \in Endpoints \ {<<"create", "form">>}}
    \cup {Representative(ep[1], ep[2], sid, "u1") : ep \in Endpoints, sid \in SessionIds \ {1}}

\* The authorization check in front of each endpoint.
Gate(r) ==
    CASE r.op = "detail" -> "allow"
      [] r.op = "create" -> AddEquipmentGate(GetCurrentUser(r.session), r.via = "form")
      [] r.op \in {"update_fields", "delete"} /\ r.via = "form" ->
           FormGate(GetCurrentUser(r.session))
      [] OTHER -> RequireAdmin(GetCurrentUser(r.session))

\* What the endpoint answers when the crud call returned normally.
Success(r) == IF r.via = "form" THEN "redirect" ELSE "ok"

\* What the endpoint answers when crud returned None / False: the JSON
\* endpoints raise 404, the form endpoints ignore the return value.
NotFound(r) == IF r.via = "form" THEN "redirect" ELSE "not_found"

\* The handler's first statement after the gate.
FirstPc(r) ==
    CASE r.op = "create" ->
           IF r.via = "form" /\ (r.name = "" \/ r.location = "")
           THEN "done" ELSE "create_equipment"
      [] r.op = "set_status" /\ ~StatusUpdate(r.status) -> "done"
      [] OTHER -> "get_equipment"

\* What is answered when the body is rejected before the handler's work: 400
\* by add_equipment for a form without name or location, 422 by the
\* validation of the body against its schema.
Rejected(r) == IF r.op = "create" THEN "bad_request" ELSE "unprocessable"

Denied == {"unauthorized", "forbidden", "login_redirect"}

Errors == {"IntegrityError", "StaleDataError", "InvalidRequestError", "OperationalError"}

LocInit == [row |-> NoRow, hist |-> <<>>, entry |-> 0]

InFlight(p) == pc[p] \notin {"idle", "done"}

NumInFlight == Cardinality({p \in Procs : InFlight(p)})

WritesHistory(r) == r.op \in {"create", "set_status", "update_fields", "append_note"}

\* The requests of the concurrent runs, all for u1 and in JSON.  Worker w1
\* is sent the admin's mutations with the smaller bodies and an anonymous
\* status change; worker w2 is sent what races with them: the admin's create,
\* status change, delete and detail read.
ConcurrentRequests(p) ==
    {r \in Requests :
        /\ r.uuid = "u1" /\ r.via = "json"
        /\ r.op = "set_status" => r.status \in EquipmentStatus
        /\ IF p = "w1"
           THEN /\ r.session \in {0, 1}
                /\ r.session = 0 => r.op = "set_status"
                /\ r.op \notin {"delete", "detail"}
                /\ r.op = "update_fields" => r.location = None /\ r.name # "n1"
                /\ r.op = "append_note" => r.user = None
           ELSE /\ r.session = 1
                /\ r.op \in {"create", "set_status", "delete", "detail"}
                /\ r.op = "set_status" => r.status # available}

\* ------------------------------------------------------------------- Init

Init ==
    /\ equipment = {}
    /\ history = <<>>
    /\ nextEquipmentId = 1
    /\ nextHistoryId = 1
    /\ fkEnforced \in BOOLEAN
    /\ pc = [p \in Procs |-> "idle"]
    /\ req = [p \in Procs |-> BlankRequest]
    /\ loc = [p \in Procs |-> LocInit]
    /\ result = [p \in Procs |-> "none"]
    /\ pre = <<{}, <<>>>>
    /\ failures = 0

\* ---------------------------------------------------------------- helpers

\* The worker moves on inside its handler.
Goto(p, next) ==
    /\ pc' = [pc EXCEPT ![p] = next]
    /\ UNCHANGED <<req, result, fkEnforced, pre, failures>>

\* The handler returns (or raises): the session is closed.
Return(p, outcome) ==
    /\ pc' = [pc EXCEPT ![p] = "done"]
    /\ result' = [result EXCEPT ![p] = outcome]
    /\ UNCHANGED <<req, fkEnforced, pre>>

Finish(p, outcome) ==
    /\ Return(p, outcome)
    /\ UNCHANGED failures

NoWrite == UNCHANGED <<equipment, history, nextEquipmentId, nextHistoryId>>

\* ---------------------------------------------------------------- actions

\* A worker accepts a request of R: the gate runs, then the handler is
\* entered.
Serve(p, R) ==
    /\ ~InFlight(p)
    /\ \E r \in R :
         /\ WritesHistory(r) /\ Gate(r) = "allow"
              => nextHistoryId + NumInFlight <= MaxHistory
         /\ r.op = "create" /\ Gate(r) = "allow"
              => nextEquipmentId + Cardinality({q \in Procs : InFlight(q) /\ req[q].op = "create"})
                    <= MaxEquipment
         /\ req' = [req EXCEPT ![p] = r]
         /\ loc' = [loc EXCEPT ![p] = LocInit]
         /\ IF Gate(r) # "allow"
            THEN /\ pc' = [pc EXCEPT ![p] = "done"]
                 /\ result' = [result EXCEPT ![p] = Gate(r)]
            ELSE /\ pc' = [pc EXCEPT ![p] = FirstPc(r)]
                 /\ result' = [result EXCEPT ![p] =
                        IF FirstPc(r) = "done" THEN Rejected(r) ELSE "none"]
    /\ NoWrite
    /\ UNCHANGED <<fkEnforced, failures>>

\* Requests served concurrently.
Accept(p) ==
    /\ Serve(p, ConcurrentRequests(p))
    /\ UNCHANGED pre

\* Requests served one after another, by one worker.
AcceptSeq(p) ==
    /\ p = "w1"
    /\ Serve(p, Requests)
    /\ pre' = store

\* create_equipment on a table without the unique index on uuid.
InsertEquipmentNoUnique(p, u) ==
    LET row == [id |-> nextEquipmentId, uuid |-> u,
                name |-> req[p].name, location |-> req[p].location,
                notes |-> req[p].notes, status |-> available,
                qrcode_path |-> SaveQrcode(u)]
    IN /\ equipment' = equipment \cup {row}
       /\ nextEquipmentId' = nextEquipmentId + 1
       /\ loc' = [loc EXCEPT ![p].row = row]
       /\ Goto(p, "refresh")
       /\ UNCHANGED <<history, nextHistoryId>>

\* create_equipment, lines 29-40: a fresh identifier, its image, and the
\* INSERT of the row.  uuid4 may return any identifier; the unique index on
\* equipment.uuid rejects one a live row already holds.
InsertEquipment(p, u) ==
    IF \E e \in equipment : e.uuid = u
    THEN /\ Finish(p, "IntegrityError")
         /\ NoWrite
         /\ UNCHANGED loc
    ELSE LET row == [id |-> nextEquipmentId, uuid |-> u,
                     name |-> req[p].name, location |-> req[p].location,
                     notes |-> req[p].notes, status |-> available,
                     qrcode_path |-> SaveQrcode(u)]
         IN /\ equipment' = equipment \cup {row}
            /\ nextEquipmentId' = nextEquipmentId + 1
            /\ loc' = [loc EXCEPT ![p].row = row]
            /\ Goto(p, "refresh")
            /\ UNCHANGED <<history, nextHistoryId>>

CreateEquipment(p) ==
    /\ pc[p] = "create_equipment"
    /\ \E u \in Uuids : InsertEquipment(p, u)

\* get_equipment_by_uuid at the head of every other crud function, and the
\* early return when it finds nothing.
NextAfterGet(op) ==
    CASE op = "set_status" -> "update_status"
      [] op = "update_fields" -> "update_details"
      [] op = "append_note" -> "log_history"
      [] op = "delete" -> "delete"
      [] OTHER -> "lazy_load"

GetEquipment(p) ==
    /\ pc[p] = "get_equipment"
    /\ LET row == GetEquipmentByUuid(req[p].uuid)
       IN IF row = NoRow
          THEN /\ Finish(p, NotFound(req[p]))
               /\ UNCHANGED loc
          ELSE /\ loc' = [loc EXCEPT ![p].row = row]
               /\ Goto(p, NextAfterGet(req[p].op))
    /\ NoWrite

\* A flush that returns to the caller's caller when nothing changed, so that
\* an unchanged value is not logged.
FlushUpdateDedupe(p, new) ==
    LET old == loc[p].row
        changed == {f \in {"name", "location", "notes", "status"} : new[f] # old[f]}
        cur == EquipmentById(old.id)
    IN IF changed = {}
       THEN /\ Finish(p, Success(req[p]))
            /\ UNCHANGED equipment
       ELSE IF cur = NoRow
            THEN /\ Finish(p, "StaleDataError")
                 /\ UNCHANGED equipment
            ELSE /\ equipment' = (equipment \ {cur}) \cup
                        {[f \in DOMAIN cur |-> IF f \in changed THEN new[f] ELSE cur[f]]}
                 /\ Goto(p, "refresh")

\* The UPDATE a flush emits for one loaded Equipment: only the attributes
\* whose new value differs from the loaded one are written, by primary key;
\* no attribute changed means no statement at all.  A statement that matches
\* no row raises StaleDataError.
FlushUpdate(p, new) ==
    LET old == loc[p].row
        changed == {f \in {"name", "location", "notes", "status"} : new[f] # old[f]}
        cur == EquipmentById(old.id)
    IN IF changed = {}
       THEN /\ Goto(p, "refresh")
            /\ UNCHANGED equipment
       ELSE IF cur = NoRow
            THEN /\ Finish(p, "StaleDataError")
                 /\ UNCHANGED equipment
            ELSE /\ equipment' = (equipment \ {cur}) \cup
                        {[f \in DOMAIN cur |-> IF f \in changed THEN new[f] ELSE cur[f]]}
                 /\ Goto(p, "refresh")

\* update_equipment_status, lines 71-72.
UpdateStatus(p) ==
    /\ pc[p] = "update_status"
    /\ FlushUpdate(p, [loc[p].row EXCEPT !.status = req[p].status])
    /\ UNCHANGED <<history, nextEquipmentId, nextHistoryId, loc>>

\* The assignments without the "is not None" tests: a field that was not
\* supplied is overwritten with None.
AssignDetailsAll(row, update_in) ==
    [row EXCEPT
       !.name = update_in.name,
       !.location = update_in.location,
       !.notes = update_in.notes]

\* update_equipment_details, lines 103-112: the object after the assignments.
AssignDetails(row, update_in) ==
    [row EXCEPT
       !.name = IF update_in.name # None THEN update_in.name ELSE @,
       !.location = IF update_in.location # None THEN update_in.location ELSE @,
       !.notes = IF update_in.notes # None THEN update_in.notes ELSE @]

\* has_changes initialised to True.
HasChangesAlways(update_in) == TRUE

\* update_equipment_details, lines 103-112: the has_changes flag.
HasChanges(update_in) ==
    update_in.name # None \/ update_in.location # None \/ update_in.notes # None

\* update_equipment_details, lines 103-115.
UpdateDetails(p) ==
    /\ pc[p] = "update_details"
    /\ IF ~HasChanges(UpdateIn(req[p]))
       THEN /\ Finish(p, Success(req[p]))
            /\ UNCHANGED equipment
       ELSE FlushUpdate(p, AssignDetails(loc[p].row, UpdateIn(req[p])))
    /\ UNCHANGED <<history, nextEquipmentId, nextHistoryId, loc>>

\* db.refresh(equipment): reload the row by primary key; a row that is gone
\* raises InvalidRequestError.
NextAfterRefresh(r) == IF r.op = "append_note" THEN "done" ELSE "log_history"

Refresh(p) ==
    /\ pc[p] = "refresh"
    /\ LET row == EquipmentById(loc[p].row.id)
       IN IF row = NoRow
          THEN /\ Finish(p, "InvalidRequestError")
               /\ UNCHANGED loc
          ELSE IF NextAfterRefresh(req[p]) = "done"
               THEN /\ Finish(p, Success(req[p]))
                    /\ loc' = [loc EXCEPT ![p].row = row]
               ELSE /\ Goto(p, "log_history")
                    /\ loc' = [loc EXCEPT ![p].row = row]
    /\ NoWrite

\* The action text and the actor each caller passes to log_history.
LogAction(r) ==
    CASE r.op = "create" -> CreatedAction
      [] r.op = "set_status" -> StatusAction(r.status)
      [] r.op = "update_fields" -> DetailsAction
      [] OTHER -> r.action

\* add_history_entry calling log_history without its user argument.
LogUserDropped(r) == None

LogUser(r) == IF r.op = "append_note" THEN r.user ELSE None

\* log_history, lines 79-81: INSERT one history row and commit.  An engine
\* that enforces the foreign key rejects a row whose equipment is gone.
InsertHistory(p, equipment_id, action, user) ==
    IF fkEnforced /\ equipment_id \notin LiveIds
    THEN /\ Finish(p, "IntegrityError")
         /\ UNCHANGED <<history, nextHistoryId, loc>>
    ELSE /\ history' = Append(history,
                [id |-> nextHistoryId, equipment_id |-> equipment_id,
                 action |-> action, user |-> user])
         /\ nextHistoryId' = nextHistoryId + 1
         /\ loc' = [loc EXCEPT ![p].entry = nextHistoryId]
         /\ Goto(p, "log_refresh")

LogHistory(p) ==
    /\ pc[p] = "log_history"
    /\ InsertHistory(p, loc[p].row.id, LogAction(req[p]), LogUser(req[p]))
    /\ UNCHANGED <<equipment, nextEquipmentId>>

\* log_history, line 82: db.refresh(entry); then the caller goes on.
LogRefresh(p) ==
    /\ pc[p] = "log_refresh"
    /\ IF loc[p].entry \notin HistoryIds(history)
       THEN Finish(p, "InvalidRequestError")
       ELSE IF req[p].op = "append_note"
            THEN Goto(p, "refresh")
            ELSE Finish(p, Success(req[p]))
    /\ NoWrite
    /\ UNCHANGED loc

\* delete_equipment, line 125: db.delete(equipment) loads the histories
\* collection for the delete cascade.
Delete(p) ==
    /\ pc[p] = "delete"
    /\ loc' = [loc EXCEPT ![p].hist = Histories(loc[p].row.id)]
    /\ Goto(p, "delete_commit")
    /\ NoWrite

\* A delete whose cascade empties the history table instead of deleting the
\* loaded histories of the one equipment.
RowsAfterDeleteAll(row, hist) ==
    [equipment |-> {e \in equipment : e.id # row.id},
     history |-> <<>>]

\* The rows left by the flush of a delete: the loaded histories and the
\* equipment row are deleted by primary key.
RowsAfterDelete(row, hist) ==
    [equipment |-> {e \in equipment : e.id # row.id},
     history |-> SelectSeq(history, LAMBDA h : h.id \notin HistoryIds(hist))]

\* delete_equipment, line 126: the commit.  An engine that enforces the
\* foreign key rejects the delete while a history row still refers to the
\* equipment; the transaction is rolled back.
DeleteCommit(p) ==
    /\ pc[p] = "delete_commit"
    /\ LET after == RowsAfterDelete(loc[p].row, loc[p].hist)
       IN IF fkEnforced /\ \E k \in 1..Len(after.history) :
                               after.history[k].equipment_id = loc[p].row.id
          THEN /\ Finish(p, "IntegrityError")
               /\ UNCHANGED <<equipment, history>>
          ELSE /\ equipment' = after.equipment
               /\ history' = after.history
               /\ Finish(p, Success(req[p]))
    /\ UNCHANGED <<nextEquipmentId, nextHistoryId, loc>>

\* The relationship Equipment.histories declares no order_by: its SELECT has
\* no ORDER BY, and the rows come back in whichever order the engine scans
\* them.
Orderings(s) ==
    {t \in [1..Len(s) -> {s[k] : k \in 1..Len(s)}] :
        \A i, j \in 1..Len(s) : i # j => t[i] # t[j]}

\* get_equipment_detail, line 61: the lazy load of equipment.histories.
LazyLoad(p) ==
    /\ pc[p] = "lazy_load"
    /\ \E t \in Orderings(Histories(loc[p].row.id)) :
         loc' = [loc EXCEPT ![p].hist = t]
    /\ Finish(p, "ok")
    /\ NoWrite

\* A statement fails for a reason outside the program (the database is
\* locked or unreachable, the image cannot be written): the exception leaves
\* the handler and the session is closed without another commit.
Fail(p) ==
    /\ InFlight(p)
    /\ failures < MaxFailures
    /\ failures' = failures + 1
    /\ Return(p, "OperationalError")
    /\ NoWrite
    /\ UNCHANGED loc

\* ------------------------------------------------------- the specifications

Program(p) ==
    \/ CreateEquipment(p)
    \/ GetEquipment(p)
    \/ UpdateStatus(p)
    \/ UpdateDetails(p)
    \/ Refresh(p)
    \/ LogHistory(p)
    \/ LogRefresh(p)
    \/ Delete(p)
    \/ DeleteCommit(p)
    \/ LazyLoad(p)
    \/ Fail(p)

\* Requests are served concurrently.
Next == \E p \in Procs : Accept(p) \/ Program(p)

Spec == Init /\ [][Next]_vars

\* Requests are served one after another.
NextSeq == \E p \in Procs : AcceptSeq(p) \/ Program(p)

SpecSeq == Init /\ [][NextSeq]_vars

TypeOK ==
    /\ \A e \in equipment : e.status \in EquipmentStatus /\ e.uuid \in Uuids
    /\ nextEquipmentId \in 1..(MaxEquipment + 1)
    /\ nextHistoryId \in 1..(MaxHistory + 1)
    /\ Len(history) <= MaxHistory
    /\ \A p \in Procs : req[p] \in Requests \cup {BlankRequest}

\* ------------------------------------------------------- claim vocabulary

\* The history rows of equipment i in a history table h.
HistoriesIn(h, i) == SelectSeq(h, LAMBDA x : x.equipment_id = i)

\* The row with primary key i in an equipment table t.
RowIn(t, i) == IF \E e \in t : e.id = i THEN CHOOSE e \in t : e.id = i ELSE NoRow

\* The row with identifier u in an equipment table t.
RowOf(t, u) == IF \E e \in t : e.uuid = u THEN CHOOSE e \in t : e.uuid = u ELSE NoRow

\* The worker that takes the step.
Acts(p) == pc'[p] # pc[p] \/ req'[p] # req[p] \/ result'[p] # result[p]

\* The history rows a step adds for equipment i.
AddedFor(i) ==
    {h \in {history'[k] : k \in 1..Len(history')} :
        h.equipment_id = i /\ h.id \notin HistoryIds(history)}

Mutated(old, new) ==
    \/ old.status # new.status
    \/ old.name # new.name
    \/ old.location # new.location
    \/ old.notes # new.notes

Succeeded(p) == pc[p] = "done" /\ result[p] \in {"ok", "redirect"}

Failed(p) == pc[p] = "done" /\ result[p] \in Errors

\* ------------------------------------------------------------------ claims

\* C1: a committed change of status, name, location or notes of a live
\* equipment becomes visible in the same step as the history entry that
\* describes it, and the entry of a status change or of an edit becomes
\* visible in the same step as the values it describes.
AtomicVisibility ==
    [][\A i \in LiveIds :
         RowIn(equipment', i) # NoRow =>
           /\ Mutated(RowIn(equipment, i), RowIn(equipment', i)) => AddedFor(i) # {}
           /\ \A p \in Procs :
                Acts(p) /\ AddedFor(i) # {} /\ req[p].op = "set_status"
                  => RowIn(equipment', i).status = req[p].status]_vars

\* C2: a create, set_status, update_fields or append_note that fails leaves
\* the store as it was before the operation (requests served one at a time).
FailureAtomicity ==
    \A p \in Procs :
        Failed(p) /\ WritesHistory(req[p]) => store = pre

\* C3 (I1): every equipment row has a history entry from the moment it
\* exists, and a row that has just come to exist is available and has a
\* history of length exactly 1.
CreationEntryAlways ==
    [][/\ \A e \in equipment' : Len(HistoriesIn(history', e.id)) >= 1
       /\ \A e \in equipment' :
            e.id \notin LiveIds =>
              e.status = available /\ Len(HistoriesIn(history', e.id)) = 1]_vars

\* C4: a step taken for a mutating request of an anonymous or non-admin
\* principal, over any endpoint, changes neither table and ends the request
\* denied; a step that changes a table is taken for an admin's request; a
\* detail read is denied to nobody.
AuthorizationGate ==
    [][\A p \in Procs :
         Acts(p) =>
           /\ req'[p].op \in MutatingOps /\ Principal(req'[p].session) # "admin"
                => store' = store /\ pc'[p] = "done" /\ result'[p] \in Denied
           /\ store' # store
                => Principal(req'[p].session) = "admin" /\ req'[p].op \in MutatingOps
           /\ req'[p].op = "detail" => result'[p] \notin Denied]_vars

AuthorizationGateWitness ==
    \E p \in Procs :
        /\ pc[p] = "done" /\ result[p] = "forbidden"
        /\ req[p].op = "delete" /\ req[p].via = "form"
        /\ Principal(req[p].session) = "user"
        /\ RowOf(equipment, req[p].uuid) # NoRow
        /\ Len(HistoriesIn(history, RowOf(equipment, req[p].uuid).id)) >= 2

\* C5: an accepted set_status call on a live item, whatever the item's status
\* and the target, leaves the item's status equal to the argument and its
\* history one entry longer than before the call, the earlier entries kept
\* (requests served one at a time; N calls in a row add N entries).
StatusCallAddsOneEntry ==
    \A p \in Procs :
        Succeeded(p) /\ req[p].op = "set_status" =>
          LET old == RowOf(pre[1], req[p].uuid)
              new == RowOf(equipment, req[p].uuid)
              before == HistoriesIn(pre[2], old.id)
              after == HistoriesIn(history, old.id)
          IN /\ old # NoRow /\ new # NoRow /\ new.id = old.id
             /\ new.status = req[p].status
             /\ Len(after) = Len(before) + 1
             /\ SubSeq(after, 1, Len(before)) = before
             /\ after[Len(after)].action = StatusAction(req[p].status)

\* The second status call in a row on one item, repeating the first one's
\* target: three entries, the last two for the same status.
StatusCallAddsOneEntryWitness ==
    \E p \in Procs :
        /\ Succeeded(p) /\ req[p].op = "set_status"
        /\ LET new == RowOf(equipment, req[p].uuid)
               after == HistoriesIn(history, new.id)
           IN /\ new # NoRow
              /\ Len(after) = 3
              /\ after[2].action = StatusAction(req[p].status)
              /\ after[3].action = StatusAction(req[p].status)
              /\ RowOf(pre[1], req[p].uuid).status = req[p].status

\* The fields of a request that the endpoint treats as supplied.
Supplied(r) ==
    {f \in {"name", "location", "notes"} :
        IF r.via = "form" THEN r[f] # "" ELSE r[f] # None}

\* C6: update_fields with every supplied field equal to the item's current
\* value does not change the length of the item's history (requests served
\* one at a time).
EqualValuesNotLogged ==
    \A p \in Procs :
        Succeeded(p) /\ req[p].op = "update_fields" =>
          LET old == RowOf(pre[1], req[p].uuid)
          IN old # NoRow /\ (\A f \in Supplied(req[p]) : req[p][f] = old[f])
               => Len(HistoriesIn(history, old.id)) = Len(HistoriesIn(pre[2], old.id))

\* C7: update_fields with no field supplied on a live item changes neither
\* the item nor any history: the store is as it was before the call
\* (requests served one at a time).
NoFieldIsNoOp ==
    \A p \in Procs :
        /\ pc[p] = "done" /\ req[p].op = "update_fields"
        /\ Principal(req[p].session) = "admin"
        /\ Supplied(req[p]) = {}
        /\ RowOf(pre[1], req[p].uuid) # NoRow
        => /\ store = pre
           /\ result[p] \in {"ok", "redirect", "OperationalError"}

NoFieldIsNoOpWitness ==
    \E p \in Procs :
        /\ Succeeded(p) /\ req[p].op = "update_fields" /\ req[p].via = "form"
        /\ Supplied(req[p]) = {}
        /\ RowOf(equipment, req[p].uuid) # NoRow
        /\ RowOf(equipment, req[p].uuid).status = issued
        /\ store = pre

\* C8 (I4): every history row refers to an equipment row that exists.
NoOrphanHistory ==
    \A k \in 1..Len(history) : history[k].equipment_id \in LiveIds

\* C9 as stated: on every operation that requires admin, a request without
\* a resolvable principal is answered Unauthorized and a request of a
\* non-admin principal is answered Forbidden.
DeniedAs401Or403 ==
    \A p \in Procs :
        req[p].op \in MutatingOps /\ Principal(req[p].session) # "admin" /\ pc[p] # "idle"
          => /\ pc[p] = "done"
             /\ result[p] = IF Principal(req[p].session) = "anonymous"
                            THEN "unauthorized" ELSE "forbidden"

\* C9 as amended: over a JSON endpoint an anonymous request is answered
\* Unauthorized, over a form endpoint it is redirected to the login page; a
\* non-admin principal is answered Forbidden over every endpoint; no such
\* request is answered with anything else.
DeniedByEndpoint ==
    \A p \in Procs :
        req[p].op \in MutatingOps /\ Principal(req[p].session) # "admin" /\ pc[p] # "idle"
          => /\ pc[p] = "done"
             /\ result[p] = IF Principal(req[p].session) = "user" THEN "forbidden"
                            ELSE IF req[p].via = "form" THEN "login_redirect"
                            ELSE "unauthorized"

DeniedByEndpointWitness ==
    \E p \in Procs :
        /\ pc[p] = "done" /\ req[p].op = "update_fields" /\ req[p].via = "form"
        /\ req[p].session = 3
        /\ result[p] = "login_redirect"
        /\ RowOf(equipment, req[p].uuid) # NoRow

\* C10 (I2): no two equipment rows share an identifier.
IdentityUnique ==
    \A e1, e2 \in equipment : e1.uuid = e2.uuid => e1 = e2

\* A create whose fresh identifier was the one a live row holds.
IdentityUniqueWitness ==
    \E p \in Procs :
        /\ pc[p] = "done" /\ req[p].op = "create"
        /\ result[p] = "IntegrityError" /\ loc[p].row = NoRow
        /\ equipment # {}

\* C11: when the identifier generated by create equals the identifier of a
\* live row, create generates another one and succeeds; the caller never
\* sees the collision as a failure of the operation.
CreateRetriesOnCollision ==
    \A p \in Procs :
        pc[p] = "done" /\ req[p].op = "create" /\ loc[p].row = NoRow
            => result[p] # "IntegrityError"

\* C12: a request for an identifier that resolves to no live item (never
\* created, or deleted before) is answered with not-found and leaves the
\* store as it was: delete, detail, set_status, update_fields, append_note.
NotFoundReported ==
    \A p \in Procs :
        /\ pc[p] = "done"
        /\ req[p].op # "create"
        /\ Gate(req[p]) = "allow"
        /\ FirstPc(req[p]) # "done"
        /\ RowOf(pre[1], req[p].uuid) = NoRow
        /\ result[p] \notin Errors
        => result[p] = "not_found" /\ store = pre

\* C13 (I5): the persisted status of every equipment row is one of available,
\* issued, lost: a row enters the table with status available, and a stored
\* status changes only to the argument of a set_status request, which is a
\* value of the three-element set.
StatusInEnum ==
    [][\A e \in equipment' :
          /\ e.status \in {available, issued, lost}
          /\ RowIn(equipment, e.id) = NoRow => e.status = available
          /\ RowIn(equipment, e.id) # NoRow /\ RowIn(equipment, e.id).status # e.status
               => \E p \in Procs :
                     /\ Acts(p)
                     /\ req[p].op = "set_status"
                     /\ req[p].status = e.status]_vars

\* A status change to a string outside the enum was sent for a live item and
\* was rejected, leaving the store as it was.
StatusInEnumWitness ==
    \E p \in Procs :
        /\ pc[p] = "done"
        /\ req[p].op = "set_status"
        /\ req[p].status = "broken"
        /\ result[p] = "unprocessable"
        /\ RowOf(equipment, req[p].uuid) # NoRow
        /\ RowOf(equipment, req[p].uuid).status = lost
        /\ store = pre

\* C14: the audit log is append-only.  An entry, once written, is carried
\* unchanged by every step (set_status, update_fields, append_note, create
\* and delete of another item); it leaves the table only in the step in which
\* a delete request removes the equipment the entry belongs to.
AppendOnly ==
    [][\A k \in 1..Len(history) :
          LET h == history[k]
          IN \/ \E j \in 1..Len(history') : history'[j] = h
             \/ /\ RowIn(equipment, h.equipment_id) # NoRow
                /\ RowIn(equipment', h.equipment_id) = NoRow
                /\ \E p \in Procs :
                      /\ Acts(p)
                      /\ req[p].op = "delete"
                      /\ loc[p].row.id = h.equipment_id]_vars

\* An item was deleted while another item was live with its history, which
\* is still there.
AppendOnlyWitness ==
    \E p \in Procs :
        /\ pc[p] = "done"
        /\ req[p].op = "delete"
        /\ result[p] = "ok"
        /\ RowOf(equipment, req[p].uuid) = NoRow
        /\ loc[p].hist # <<>>
        /\ \E e \in equipment : Histories(e.id) # <<>>

\* C15: when a delete and a set_status, update_fields or append_note on the
\* same item interleave, deletion wins: the mutation does not end in an
\* error raised by the store, and if it reports success the entry it wrote
\* is not left behind for an item that is gone.
DeletionWins ==
    \A p \in Procs :
        failures = 0 /\ pc[p] = "done"
            /\ req[p].op \in {"set_status", "update_fields", "append_note"}
            => /\ result[p] \notin {"StaleDataError", "InvalidRequestError", "IntegrityError"}
               /\ result[p] = "ok"
                    => \A k \in 1..Len(history) :
                          history[k].id = loc[p].entry
                              => RowIn(equipment, history[k].equipment_id) # NoRow

\* C16: concurrent set_status calls on one live item are resolved by
\* last-write-wins: when a call's entity write commits, the stored status is
\* that call's argument, so that after any interleaving the final status is
\* the argument of the call that committed last.
LastWriteWins ==
    [][\A p \in Procs :
          /\ req[p].op = "set_status"
          /\ pc[p] = "update_status"
          /\ pc'[p] = "refresh"
          /\ RowIn(equipment', loc[p].row.id) # NoRow
          => RowIn(equipment', loc[p].row.id).status = req[p].status]_vars

\* C17: update_fields on a live item with at least one supplied field whose
\* value differs from the current one appends exactly one entry
\* ("details updated") to the item's history, however many fields change;
\* every supplied field takes the supplied value, every other field of the
\* item, its status included, and every other item stay as they were
\* (requests served one at a time).
DetailsChangeLoggedOnce ==
    \A p \in Procs :
        LET r == req[p]
            old == RowOf(pre[1], r.uuid)
            new == RowOf(equipment, r.uuid)
        IN /\ Succeeded(p)
           /\ r.op = "update_fields"
           /\ old # NoRow
           /\ \E f \in Supplied(r) : r[f] # old[f]
           => /\ Len(history) = Len(pre[2]) + 1
              /\ SubSeq(history, 1, Len(pre[2])) = pre[2]
              /\ history[Len(history)].equipment_id = old.id
              /\ history[Len(history)].action = DetailsAction
              /\ new # NoRow
              /\ \A f \in {"name", "location", "notes"} :
                    new[f] = IF f \in Supplied(r) THEN r[f] ELSE old[f]
              /\ \A f \in {"id", "uuid", "status", "qrcode_path"} : new[f] = old[f]
              /\ equipment \ {new} = pre[1] \ {old}

\* An update that changed two fields of an item whose name and status had
\* been changed before, and that supplied no name.
DetailsChangeLoggedOnceWitness ==
    \E p \in Procs :
        LET r == req[p]
            old == RowOf(pre[1], r.uuid)
        IN /\ Succeeded(p)
           /\ r.op = "update_fields"
           /\ old # NoRow
           /\ Supplied(r) = {"location", "notes"}
           /\ r.location # old.location
           /\ r.notes # old.notes
           /\ old.name = "n2"
           /\ Len(history) = Len(pre[2]) + 1

\* C18: append_note by the admin on a live item succeeds, appends exactly one
\* entry to the item's history, carrying the supplied action text and the
\* supplied actor (None when none was given), and changes no field of any
\* equipment row (requests served one at a time; a call cut short by a
\* failure of the store aside).
NoteAddsOneEntry ==
    \A p \in Procs :
        LET r == req[p]
            old == RowOf(pre[1], r.uuid)
        IN /\ pc[p] = "done"
           /\ r.op = "append_note"
           /\ Gate(r) = "allow"
           /\ old # NoRow
           /\ result[p] # "OperationalError"
           => /\ result[p] = "ok"
              /\ Len(history) = Len(pre[2]) + 1
              /\ SubSeq(history, 1, Len(pre[2])) = pre[2]
              /\ history[Len(history)].equipment_id = old.id
              /\ history[Len(history)].action = r.action
              /\ history[Len(history)].user = r.user
              /\ equipment = pre[1]

\* A note with an actor was appended to an item that already had history.
NoteAddsOneEntryWitness ==
    \E p \in Procs :
        /\ Succeeded(p)
        /\ req[p].op = "append_note"
        /\ req[p].user = "bob"
        /\ Len(history) >= 2
        /\ history[Len(history)].user = "bob"
        /\ history[Len(history)].id = loc[p].entry

\* C19: detail returns the complete history of the item in write order: the
\* entries of the item, each once, an entry written later standing later in
\* the returned sequence (requests served one at a time).
HistoryInWriteOrder ==
    \A p \in Procs :
        pc[p] = "done" /\ req[p].op = "detail" /\ result[p] = "ok"
            => loc[p].hist = HistoriesIn(pre[2], loc[p].row.id)

\* The status named by the last status-change entry in the history of
\* equipment i, or available when there is none.
LastLoggedStatus(i) ==
    LET changes == SelectSeq(Histories(i),
                       LAMBDA h : Len(h.action) = 2 /\ h.action[1] = "status changed to")
    IN IF changes = <<>> THEN available ELSE changes[Len(changes)].action[2]

\* C20: in every quiescent state (no request in flight, none cut short by a
\* failure of the store) the status of each live item is the value named by
\* the last status-change entry of its history, or available when its history
\* holds no status-change entry.
StatusAgreesWithLog ==
    failures = 0 /\ (\A p \in Procs : ~InFlight(p))
        => \A e \in equipment : e.status = LastLoggedStatus(e.id)

=============================================================================
